---- MODULE Spec2Model ----
(***************************************************************************)
(* A model of the classification-and-routing pipeline of                   *)
(* drive-auto-sorter: src/src/sorter.py, ai_sort_files and its helpers.    *)
(*                                                                         *)
(* Python strings are sequences of one-character strings, so that          *)
(* normalisation, case folding, substring tests and similarity are         *)
(* computed and not assumed.  Python's None is the value None below.       *)
(* Scores of _rule_score are kept in half units (0.5 is 1, 1.0 is 2,       *)
(* -1.0 is -2) so that they stay integers.                                 *)
(***************************************************************************)
EXTENDS Integers, Sequences, FiniteSets, TLC

(***************************************************************************)
(* Strings                                                                 *)
(***************************************************************************)
UpperLetters ==
  <<"A","B","C","D","E","F","G","H","I","J","K","L","M",
    "N","O","P","Q","R","S","T","U","V","W","X","Y","Z">>

LowerLetters ==
  <<"a","b","c","d","e","f","g","h","i","j","k","l","m",
    "n","o","p","q","r","s","t","u","v","w","x","y","z">>

\* str.lower() on one character
LowerChar(c) ==
  IF \E k \in 1..26 : UpperLetters[k] = c
  THEN LowerLetters[CHOOSE k \in 1..26 : UpperLetters[k] = c]
  ELSE c

\* str.upper() on one character
UpperChar(c) ==
  IF \E k \in 1..26 : LowerLetters[k] = c
  THEN UpperLetters[CHOOSE k \in 1..26 : LowerLetters[k] = c]
  ELSE c

\* the characters matched by the regular expression \s
IsSpace(c) == c \in {" ", "\t", "\n"}

NotSpace(c) == ~IsSpace(c)

lower(s) == [k \in 1..Len(s) |-> LowerChar(s[k])]

upper(s) == [k \in 1..Len(s) |-> UpperChar(s[k])]

\* sub in s
Contains(sub, s) ==
  \E k \in 0..(Len(s) - Len(sub)) : SubSeq(s, k + 1, k + Len(sub)) = sub

\* s.endswith(suffix)
EndsWith(s, suffix) ==
  /\ Len(suffix) <= Len(s)
  /\ SubSeq(s, Len(s) - Len(suffix) + 1, Len(s)) = suffix

\* s[:n] for n >= 0
\* a variant that keeps the whole text
Truncate_Whole(s, n) == s

Truncate(s, n) == SubSeq(s, 1, IF Len(s) < n THEN Len(s) ELSE n)

\* Python's None, distinct from every string
None == <<"<None>">>

\* Python truthiness of an Optional[str]
Truthy(s) == s # None /\ s # <<>>

NONE == <<"N","O","N","E">>

\* _norm: strip all whitespace, lower-case
_norm(s) == lower(SelectSeq(s, NotSpace))

(***************************************************************************)
(* Rule Matcher: keyword scoring (scores in half units)                    *)
(***************************************************************************)
\* some exclude keyword of the profile, non-empty after normalisation, is a
\* substring of the normalised subject (the loop of lines 131-136)
ExcludeHit(subject_norm, excludes) ==
  \E k \in 1..Len(excludes) :
    /\ excludes[k] # <<>>
    /\ _norm(excludes[k]) # <<>>
    /\ Contains(_norm(excludes[k]), subject_norm)

\* the number of include keywords that match (the loop of lines 138-145)
IncludeCount(subject_norm, includes) ==
  Cardinality({k \in 1..Len(includes) :
    /\ includes[k] # <<>>
    /\ _norm(includes[k]) # <<>>
    /\ Contains(_norm(includes[k]), subject_norm)})

\* a variant that counts the include keywords before looking at the excludes
_rule_score_IncludeFirst(subject, profile) ==
  LET subject_norm == _norm(subject)
      score == IncludeCount(subject_norm, profile.include)
      name_norm == _norm(profile.name)
  IN  IF subject_norm = <<>> THEN 0
      ELSE IF score > 0 THEN 2 * score
      ELSE IF ExcludeHit(subject_norm, profile.exclude) THEN -2
      ELSE IF name_norm # <<>> /\ Contains(name_norm, subject_norm) THEN 1
      ELSE 0

\* a variant without the score of the folder name
_rule_score_NoNameMatch(subject, profile) ==
  LET subject_norm == _norm(subject)
      score == IncludeCount(subject_norm, profile.include)
  IN  IF subject_norm = <<>> THEN 0
      ELSE IF ExcludeHit(subject_norm, profile.exclude) THEN -2
      ELSE 2 * score

_rule_score(subject, profile) ==
  LET subject_norm == _norm(subject)
      score == IncludeCount(subject_norm, profile.include)
      name_norm == _norm(profile.name)
  IN  IF subject_norm = <<>> THEN 0
      ELSE IF ExcludeHit(subject_norm, profile.exclude) THEN -2
      ELSE IF score > 0 THEN 2 * score
      ELSE IF name_norm # <<>> /\ Contains(name_norm, subject_norm) THEN 1
      ELSE 0

\* the loop of _best_profile_by_rules from profile k on; best is an index
\* into profiles, 0 for None
RECURSIVE BestByRulesFrom(_, _, _, _, _)
BestByRulesFrom(subject, profiles, k, best, best_score) ==
  IF k > Len(profiles) THEN (IF best_score > 0 THEN best ELSE 0)
  ELSE LET score == _rule_score(subject, profiles[k])
       IN  IF score < 0
           THEN BestByRulesFrom(subject, profiles, k + 1, best, best_score)
           ELSE IF score > best_score
           THEN BestByRulesFrom(subject, profiles, k + 1, k, score)
           ELSE BestByRulesFrom(subject, profiles, k + 1, best, best_score)

\* a variant that keeps the last of the profiles of the highest score
_best_profile_by_rules_LastBest(subject, profiles) ==
  LET best == {p \in 1..Len(profiles) :
                 /\ _rule_score(subject, profiles[p]) > 0
                 /\ \A q \in 1..Len(profiles) :
                      _rule_score(subject, profiles[q])
                        <= _rule_score(subject, profiles[p])}
  IN  IF best = {} THEN 0 ELSE CHOOSE p \in best : \A q \in best : q <= p

\* the index of the chosen profile, 0 for None
_best_profile_by_rules(subject, profiles) ==
  BestByRulesFrom(subject, profiles, 1, 0, 0)

(***************************************************************************)
(* Rule Matcher: title similarity (difflib.SequenceMatcher.ratio)          *)
(***************************************************************************)
\* the length of the longest common run of a from i and b from j, inside
\* a[..ahi] and b[..bhi]
RECURSIVE RunLen(_, _, _, _, _, _)
RunLen(a, b, i, j, ahi, bhi) ==
  IF i > ahi \/ j > bhi THEN 0
  ELSE IF a[i] # b[j] THEN 0
  ELSE 1 + RunLen(a, b, i + 1, j + 1, ahi, bhi)

\* find_longest_match: <<i, j, k>>, the longest block, the earliest in a,
\* then the earliest in b; k = 0 when no character matches
find_longest_match(a, b, alo, ahi, blo, bhi) ==
  LET runs == {<<i, j, RunLen(a, b, i, j, ahi, bhi)>> :
                 i \in alo..ahi, j \in blo..bhi}
      Better(r, t) ==
        \/ r[3] > t[3]
        \/ r[3] = t[3] /\ r[1] < t[1]
        \/ r[3] = t[3] /\ r[1] = t[1] /\ r[2] <= t[2]
  IN  CHOOSE r \in runs : \A t \in runs : Better(r, t)

\* get_matching_blocks: the total size of the matching blocks
RECURSIVE MatchingSize(_, _, _, _, _, _)
MatchingSize(a, b, alo, ahi, blo, bhi) ==
  IF alo > ahi \/ blo > bhi THEN 0
  ELSE LET m == find_longest_match(a, b, alo, ahi, blo, bhi)
       IN  IF m[3] = 0 THEN 0
           ELSE m[3] + MatchingSize(a, b, alo, m[1] - 1, blo, m[2] - 1)
                     + MatchingSize(a, b, m[1] + m[3], ahi, m[2] + m[3], bhi)

\* ratio() as the fraction <<numerator, denominator>>: 2.0 * M / T, and 1.0
\* when both strings are empty
Ratio(a, b) ==
  IF Len(a) + Len(b) = 0 THEN <<1, 1>>
  ELSE <<2 * MatchingSize(a, b, 1, Len(a), 1, Len(b)), Len(a) + Len(b)>>

\* r > s for fractions with positive denominators
RatioGreater(r, s) == r[1] * s[2] > s[1] * r[2]

\* the similarity threshold 0.82, in hundredths
ThresholdPct == 82

RECURSIVE BestBySimilarityFrom(_, _, _, _, _)
BestBySimilarityFrom(title_lower, profiles, k, best, best_score) ==
  IF k > Len(profiles)
  THEN (IF 100 * best_score[1] >= ThresholdPct * best_score[2] THEN best ELSE 0)
  ELSE LET ratio == Ratio(title_lower, lower(profiles[k].name))
       IN  IF RatioGreater(ratio, best_score)
           THEN BestBySimilarityFrom(title_lower, profiles, k + 1, k, ratio)
           ELSE BestBySimilarityFrom(title_lower, profiles, k + 1, best, best_score)

\* the index of the chosen profile, 0 for None
_best_profile_by_similarity(title, profiles) ==
  BestBySimilarityFrom(lower(title), profiles, 1, 0, <<0, 1>>)

(***************************************************************************)
(* Extraction Dispatcher                                                   *)
(***************************************************************************)
ExtPdf == <<".","p","d","f">>

ImageExts ==
  { <<".","p","n","g">>, <<".","j","p","g">>, <<".","j","p","e","g">>,
    <<".","w","e","b","p">>, <<".","h","e","i","c">> }

ExtXlsx == <<".","x","l","s","x">>

\* _DEF_PLAIN_EXTS
_DEF_PLAIN_EXTS ==
  { <<".","t","x","t">>, <<".","c","s","v">>, <<".","m","d">> }

MimePdf == "application/pdf"

MimeXlsx == "application/vnd.openxmlformats-officedocument.spreadsheetml.sheet"

\* mime.startswith("image/"), over the MIME types of the model
IsImageMime(mime) == mime \in {"image/png", "image/jpeg"}

\* the branch of _extract_text taken: which extractor is invoked
ExtractorFor(name, mime) ==
  LET nl == lower(name)
  IN  IF mime = MimePdf \/ EndsWith(nl, ExtPdf) THEN "pdf"
      ELSE IF IsImageMime(mime) \/ (\E e \in ImageExts : EndsWith(nl, e))
      THEN "image"
      ELSE IF EndsWith(nl, ExtXlsx) \/ mime = MimeXlsx THEN "xlsx"
      ELSE IF \E e \in _DEF_PLAIN_EXTS : EndsWith(nl, e) THEN "plain"
      ELSE "none"

\* data is the text the invoked extractor yields when it succeeds; raises
\* says that it raises instead (decoding with errors="ignore" never does)
_extract_text(name, mime, data, raises) ==
  LET kind == ExtractorFor(name, mime)
  IN  IF kind = "none" THEN <<>>
      ELSE IF raises /\ kind # "plain" THEN <<>>
      ELSE data

(***************************************************************************)
(* Folder Index                                                            *)
(***************************************************************************)
\* the names used by the model
sInv == <<"I","n","v">>

sRec == <<"R","e","c">>

kwQ == <<"q">>

kwX == <<"x">>

kwZ == <<"z">>

sTax == <<"T","a","x">>

sBil == <<"B","i","l">>

\* load_category_profiles(): the configured profiles, by folder name
category_rules(name) ==
  IF name = sInv THEN [include |-> <<kwQ>>, exclude |-> <<kwX>>]
  ELSE IF name = sTax THEN [include |-> <<kwQ, kwZ>>, exclude |-> <<>>]
  ELSE [include |-> <<>>, exclude |-> <<>>]

\* folder_profiles, in the order of the listing
FolderProfiles(subs) ==
  [k \in 1..Len(subs) |->
     [id      |-> subs[k].id,
      name    |-> subs[k].name,
      include |-> category_rules(subs[k].name).include,
      exclude |-> category_rules(subs[k].name).exclude]]

\* A Python dict as a sequence of <<key, value>> in insertion order:
\* d[key] = value keeps the place of a key already present.
DictHas(d, key) == \E k \in 1..Len(d) : d[k][1] = key

DictGet(d, key) ==
  IF DictHas(d, key)
  THEN d[CHOOSE k \in 1..Len(d) : d[k][1] = key][2]
  ELSE 0

DictSet(d, key, value) ==
  IF DictHas(d, key)
  THEN [k \in 1..Len(d) |-> IF d[k][1] = key THEN <<key, value>> ELSE d[k]]
  ELSE Append(d, <<key, value>>)

\* sub_by_norm after the first n folders: normalised name -> profile index
RECURSIVE SubByNormUpTo(_, _)
SubByNormUpTo(subs, n) ==
  IF n = 0 THEN <<>>
  ELSE DictSet(SubByNormUpTo(subs, n - 1), _norm(subs[n].name), n)

\* sub_by_lower after the first n folders: lower-cased name -> profile index
RECURSIVE SubByLowerUpTo(_, _)
SubByLowerUpTo(subs, n) ==
  IF n = 0 THEN <<>>
  ELSE DictSet(SubByLowerUpTo(subs, n - 1), lower(subs[n].name), n)

\* "for key, sub in d.items(): if P(key): dest = sub; break", 0 when no key
\* passes; Hit is the set of places whose key passes
FirstValue(d, Hit) ==
  IF Hit = {} THEN 0
  ELSE d[CHOOSE k \in Hit : \A m \in Hit : k <= m][2]

\* the substring match of a title against the keys of a dict (lines 263-274)
TitleSubstring(d, title) ==
  FirstValue(d, {k \in 1..Len(d) : d[k][1] # <<>> /\ Contains(d[k][1], title)})

\* a variant that maps by equality only
LabelToFolder_EqualityOnly(d, norm_label) ==
  IF DictHas(d, norm_label) THEN DictGet(d, norm_label) ELSE 0

\* a label to a folder: normalised equality, then substring either way
\* (lines 309-315 and 376-384)
LabelToFolder(d, norm_label) ==
  IF DictHas(d, norm_label) THEN DictGet(d, norm_label)
  ELSE FirstValue(d, {k \in 1..Len(d) :
         /\ d[k][1] # <<>>
         /\ (Contains(d[k][1], norm_label) \/ Contains(norm_label, d[k][1]))})

(***************************************************************************)
(* The inputs of a run                                                     *)
(***************************************************************************)
\* the longest file listing of the general runs
MaxListed == 2

\* _DEF_MAX_BYTES, scaled to the sizes of the model
MaxBytes == 5

\* text_max, scaled to the texts of the model
TextMax == 2

FolderInv == [id |-> "d1", name |-> sInv]

FolderRec == [id |-> "d2", name |-> sRec]

\* the listings of sub-folders
FolderLists == { <<>>, <<FolderRec, FolderInv>> }

sDoc == <<"d","o","c">>

\* The files a listing is made of; id is set from the place in the listing.
\* content is the text the extractor yields for the file's bytes.
\* the name holds an include and an exclude keyword of Inv; no extractor
\* takes the type, and the backend reports neither size nor hash
FileExcluded ==
  [id |-> 0, name |-> <<"q","x">>, mimeType |-> "application/zip",
   size |-> 0, md5Checksum |-> None, content |-> <<"z">>]

\* the name holds the name of Inv
FileNamed ==
  [id |-> 0, name |-> <<"a","i","n","v">>, mimeType |-> "text/plain",
   size |-> 3, md5Checksum |-> <<"h0">>, content |-> <<"z">>]

\* the name holds the name of Inv and an exclude keyword of Inv
FileSubstring ==
  [id |-> 0, name |-> <<"I","n","v","x">>, mimeType |-> "text/plain",
   size |-> 3, md5Checksum |-> <<"h0">>, content |-> <<"z">>]

\* the name is one character away from the name of Inv
FileSimilar ==
  [id |-> 0, name |-> <<"I","n","y","v">>, mimeType |-> "text/plain",
   size |-> 3, md5Checksum |-> <<"h0">>, content |-> <<"z">>]

\* no title signal; the text holds an include keyword of Inv
FileKeyword ==
  [id |-> 0, name |-> sDoc, mimeType |-> MimePdf,
   size |-> 3, md5Checksum |-> <<"h1">>, content |-> <<"q","z">>]

\* no title signal; the text holds a keyword only past text_max; the size
\* is exactly max_bytes
FileScan ==
  [id |-> 0, name |-> sDoc, mimeType |-> "image/png",
   size |-> MaxBytes, md5Checksum |-> <<"h2">>, content |-> <<"z","z","q">>]

\* larger than max_bytes
FileBig ==
  [id |-> 0, name |-> sDoc, mimeType |-> MimePdf,
   size |-> 9, md5Checksum |-> <<"h3">>, content |-> <<"q">>]

FileKinds ==
  { FileExcluded, FileNamed, FileSubstring, FileSimilar,
    FileKeyword, FileScan, FileBig }

\* a listing: the kinds in order, each with its place as id
Listing(kinds) == [k \in 1..Len(kinds) |-> [kinds[k] EXCEPT !.id = k]]

GeneralListings ==
  UNION {{Listing(ks) : ks \in [1..n -> FileKinds]} : n \in 1..MaxListed}

\* The run of the cost ceiling: five files that no title stage resolves,
\* of five different contents, under one folder, with max_files = 2.
CeilingListing ==
  [k \in 1..5 |-> [FileScan EXCEPT !.id = k, !.md5Checksum = <<"m", k>>]]

\* Folder listings with profiles of equal keyword score, with folders of one
\* name, of names equal after normalisation, and with no configured keywords
FolderTax == [id |-> "d3", name |-> sTax]

FolderInvAgain == [id |-> "d4", name |-> sInv]

FolderRecSpaced == [id |-> "d5", name |-> <<"R"," ","e","c">>]

FolderBil == [id |-> "d6", name |-> sBil]

\* a folder whose name is one space
FolderBlank == [id |-> "d9", name |-> <<" ">>]

NamedFolderLists ==
  { <<FolderInv, FolderTax>>, <<FolderTax, FolderInv>>,
    <<FolderInv, FolderInvAgain>>, <<FolderRec, FolderRecSpaced>>,
    <<FolderBil, FolderRec>>, <<FolderBlank, FolderRec>> }

\* the name holds one include keyword of Inv and one of Tax
FileTie ==
  [id |-> 0, name |-> <<"q">>, mimeType |-> "text/plain",
   size |-> 3, md5Checksum |-> <<"h0">>, content |-> <<"z">>]

\* the name holds one include keyword of Inv and two of Tax
FileTwoWords ==
  [id |-> 0, name |-> <<"q","z">>, mimeType |-> "text/plain",
   size |-> 3, md5Checksum |-> <<"h0">>, content |-> <<"z">>]

\* the name holds the name of Bil, a folder with no configured keywords
FileInFolder ==
  [id |-> 0, name |-> <<"2","B","i","l",".","p","d","f">>,
   mimeType |-> MimePdf,
   size |-> 3, md5Checksum |-> <<"h4">>, content |-> <<"z">>]

\* the name holds a space and no folder name or keyword
FileSpaced ==
  [id |-> 0, name |-> <<"a"," ","b">>, mimeType |-> "text/plain",
   size |-> 3, md5Checksum |-> <<"h0">>, content |-> <<"z">>]

NamedFileKinds ==
  { FileTie, FileTwoWords, FileInFolder, FileExcluded, FileNamed,
    FileSubstring, FileKeyword, FileScan, FileSpaced }

\* what a classifier call answers; Raise says that the call raises
Raise == <<"<raise>">>

AILabels == { NONE, lower(NONE), <<>>, sInv, sRec, <<"z","z">> }

MoveOutcomes == {"ok", "HttpError", "OtherError"}

(***************************************************************************)
(* State                                                                   *)
(***************************************************************************)
VARIABLES
  parent_id,    \* the parent_id of the request body
  subfolders,   \* list_subfolders(service, parent_id)
  files,        \* list_files_directly_under(service, parent_id)
  max_files,    \* the parameters of the run
  text_max,
  max_bytes,
  disk,         \* the content of CACHE_PATH
  cache,        \* the dict of the run
  moved,
  skipped,
  ai_calls,
  idx,          \* the place of f in files
  pc,           \* where the run is
  dest,         \* dest_profile / dest, an index into folder_profiles
  method,
  title_guess,
  cat,
  cat_method,
  text,
  log,          \* history: per file, the stages and calls made for it
  parents,      \* the backend: the parent folders of every file, by file id
  run,          \* 1 in the first run over the parent folder, 2 in the next
  first_moved,  \* the files the first run moved: id -> parents after the run
  other_pc,     \* a second run of ai_sort_files on the same host: where it is
  other_cache   \* the cache dict of the second run

vars ==
  <<parent_id, subfolders, files, max_files, text_max, max_bytes, disk, cache, moved,
    skipped, ai_calls, idx, pc, dest, method, title_guess, cat, cat_method,
    text, log, parents, run, first_moved, other_pc, other_cache>>

world == <<parent_id, subfolders, files, max_files, text_max, max_bytes>>

locals == <<dest, method, title_guess, cat, cat_method, text>>

\* what a run in progress never touches: the count of runs, the report of the
\* run before, and the state of the other run
aside == <<run, first_moved, other_pc, other_cache>>

\* the id of the folder that is sorted
ParentId == "p0"

folder_profiles == FolderProfiles(subfolders)

sub_by_norm == SubByNormUpTo(subfolders, Len(subfolders))

sub_by_lower == SubByLowerUpTo(subfolders, Len(subfolders))

f == files[idx]

EmptyCache == [h \in {} |-> <<>>]

\* a variant that never finds an entry
CacheGet_Miss(c, md5) == None

CacheGet(c, md5) == IF md5 \in DOMAIN c THEN c[md5] ELSE None

\* a variant that stores the normalised label
CachePut_Normalised(c, md5, label) ==
  [h \in DOMAIN c \cup {md5} |-> IF h = md5 THEN _norm(label) ELSE c[h]]

\* a variant that keeps only the new entry
CachePut_Alone(c, md5, label) == [h \in {md5} |-> label]

CachePut(c, md5, label) ==
  [h \in DOMAIN c \cup {md5} |-> IF h = md5 THEN label ELSE c[h]]

\* nothing of the loop has happened: an empty report, every listed file
\* directly under the parent
LoopNotBegun ==
  /\ text_max = TextMax
  /\ max_bytes = MaxBytes
  /\ cache = EmptyCache
  /\ moved = <<>>
  /\ skipped = <<>>
  /\ ai_calls = 0
  /\ idx = 0
  /\ dest = 0
  /\ method = ""
  /\ title_guess = None
  /\ cat = None
  /\ cat_method = ""
  /\ text = <<>>
  /\ log = [k \in 1..Len(files) |-> <<>>]
  /\ parents = [k \in 1..Len(files) |-> {ParentId}]
  /\ run = 1
  /\ first_moved = <<>>

\* the state before the first statement of a run over the listing of the
\* parent folder
ReportEmpty ==
  /\ parent_id = ParentId
  /\ pc = "start"
  /\ LoopNotBegun

\* a first run with no cache file yet and no other run on the host
RunBegins ==
  /\ ReportEmpty
  /\ disk = EmptyCache
  /\ other_pc = "off"
  /\ other_cache = EmptyCache

Init ==
  /\ \/ /\ subfolders \in FolderLists
        /\ files \in GeneralListings
        /\ max_files = 3
     \/ /\ subfolders = <<FolderInv>>
        /\ files = CeilingListing
        /\ max_files = 2
  /\ RunBegins

\* the runs over one file and two folders whose names or keywords compete
InitFolders ==
  /\ subfolders \in NamedFolderLists
  /\ files \in {Listing(<<kind>>) : kind \in NamedFileKinds}
  /\ max_files = 3
  /\ RunBegins

\* the cache file left by earlier runs
PriorCache == [h \in {<<"h9">>} |-> sRec]

\* the hashes of the contents the other run classifies
OtherHashes == {<<"h1">>, <<"h8">>}

\* two runs of ai_sort_files on one host, over one cache file: this run, over
\* one file, and another one that has not loaded the cache yet
InitTwoRuns ==
  /\ subfolders = <<FolderRec, FolderInv>>
  /\ files \in {Listing(<<kind>>) : kind \in {FileNamed, FileKeyword, FileScan}}
  /\ max_files = 3
  /\ ReportEmpty
  /\ disk = PriorCache
  /\ other_pc = "start"
  /\ other_cache = EmptyCache

(***************************************************************************)
(* ai_sort_files                                                           *)
(***************************************************************************)
Logged(events) == [log EXCEPT ![idx] = @ \o events]

\* a variant that records nothing
Skip_Silent(reason) == skipped' = skipped

\* a variant that records the skip twice
Skip_Twice(reason) ==
  skipped' = skipped \o
    << [file_id |-> f.id, name |-> f.name, reason |-> reason],
       [file_id |-> f.id, name |-> f.name, reason |-> reason] >>

\* skipped.append({...}); continue
Skip(reason) ==
  skipped' = Append(skipped, [file_id |-> f.id, name |-> f.name, reason |-> reason])

\* "continue": the next file of the loop, or the end of the loop
Continue ==
  /\ idx' = idx + 1
  /\ pc' = IF idx + 1 > Len(files) THEN "save" ELSE "title"
  /\ dest' = 0
  /\ method' = ""
  /\ title_guess' = None
  /\ cat' = None
  /\ cat_method' = ""
  /\ text' = <<>>

\* line 368: what may be stored in the cache
Cacheable(md5, label) == md5 # None /\ Truthy(label) /\ upper(label) # NONE

\* a variant that never stores
CacheAfter_Unchanged(c, md5, label) == c

\* lines 368-369
CacheAfter(c, md5, label) ==
  IF Cacheable(md5, label) THEN CachePut(c, md5, label) ELSE c

\* a request body without the field parent_id
NoParentId == "<missing>"

\* SortBody, api.py lines 32-36: parent_id is a required field of type str;
\* no further constraint on the string
SortBody(body_parent_id) == body_parent_id # NoParentId

\* api.py lines 39-50, mode "ai": the body is validated against SortBody when
\* the request is received; a valid body is handed to ai_sort_files
sort_files ==
  /\ pc = "request"
  /\ pc' = IF SortBody(parent_id) THEN "start" ELSE "rejected"
  /\ UNCHANGED <<world, aside, parents, disk, cache, moved, skipped, ai_calls,
                 idx, locals, log>>

\* lines 218-219 with a parent id the backend does not know: files().list
\* raises (lines 41-43 and 59-61 are not in a try), or answers no child
ListingFails ==
  /\ pc = "start"
  /\ parent_id # ParentId
  /\ pc' = "raised"
  /\ UNCHANGED <<world, aside, parents, disk, cache, moved, skipped, ai_calls,
                 idx, locals, log>>

\* lines 218-246: the listings are taken, the cache is loaded
Start ==
  /\ pc = "start"
  /\ cache' = disk
  /\ idx' = 1
  /\ pc' = IF Len(files) = 0 THEN "save" ELSE "title"
  /\ UNCHANGED <<world, aside, parents, disk, moved, skipped, ai_calls, locals, log>>

\* a variant that looks for the folder name in the title before the rules
TitleDecision_SubstringFirst(name, profiles, by_norm, by_lower) ==
  LET rule_profile == _best_profile_by_rules(name, profiles)
      sub_norm     == TitleSubstring(by_norm, _norm(name))
  IN  IF sub_norm # 0
      THEN [dest |-> sub_norm, method |-> "title_substring",
            stages |-> <<"title_rule", "title_substring">>]
      ELSE IF rule_profile # 0
      THEN [dest |-> rule_profile, method |-> "title_rule",
            stages |-> <<"title_rule">>]
      ELSE [dest |-> 0, method |-> "",
            stages |-> <<"title_rule", "title_substring", "title_similarity">>]

\* lines 256-280: the destination the title alone gives, with its method
TitleDecision(name, profiles, by_norm, by_lower) ==
  LET rule_profile == _best_profile_by_rules(name, profiles)
      sub_norm     == TitleSubstring(by_norm, _norm(name))
      sub_lower    == TitleSubstring(by_lower, lower(name))
      similar      == _best_profile_by_similarity(name, profiles)
  IN  IF rule_profile # 0
      THEN [dest |-> rule_profile, method |-> "title_rule",
            stages |-> <<"title_rule">>]
      ELSE IF sub_norm # 0
      THEN [dest |-> sub_norm, method |-> "title_substring",
            stages |-> <<"title_rule", "title_substring">>]
      ELSE IF sub_lower # 0
      THEN [dest |-> sub_lower, method |-> "title_substring",
            stages |-> <<"title_rule", "title_substring">>]
      ELSE IF similar # 0
      THEN [dest |-> similar, method |-> "title_similarity",
            stages |-> <<"title_rule", "title_substring", "title_similarity">>]
      ELSE [dest |-> 0, method |-> "",
            stages |-> <<"title_rule", "title_substring", "title_similarity">>]

\* a variant without a ceiling
LimitReached_Never(calls, limit) == FALSE

\* lines 299-301 and 346-348: the ceiling on AI calls
LimitReached(calls, limit) == calls >= limit

\* lines 247-301: the title stages of file f, up to the gate of the title AI
TitleStages ==
  /\ pc = "title"
  /\ LET d == TitleDecision(f.name, folder_profiles, sub_by_norm, sub_by_lower)
     IN  /\ log' = Logged(d.stages)
         /\ IF d.dest # 0
            THEN /\ dest' = d.dest
                 /\ method' = d.method
                 /\ pc' = "title_move"
                 /\ UNCHANGED <<idx, skipped, title_guess, cat, cat_method, text>>
            ELSE IF folder_profiles # <<>>
            THEN IF LimitReached(ai_calls, max_files)
                 THEN Skip(<<"ai_limit_reached">>) /\ Continue
                 ELSE /\ pc' = "title_ai"
                      /\ UNCHANGED <<idx, skipped, locals>>
            ELSE /\ pc' = "meta"
                 /\ UNCHANGED <<idx, skipped, locals>>
  /\ UNCHANGED <<world, aside, parents, disk, cache, moved, ai_calls>>

\* a variant that adds the destination and removes no parent
move_file_KeepsParents(ps, file_id, dest_folder_id) ==
  [ps EXCEPT ![file_id] = @ \cup {dest_folder_id}]

\* move_file, lines 68-76: the parents read are removed, the destination is
\* added, in one update
move_file(ps, file_id, dest_folder_id) ==
  LET prev_parents == ps[file_id]
  IN  [ps EXCEPT ![file_id] = (@ \ prev_parents) \cup {dest_folder_id}]

\* move_file and what follows it: the record of a move that returns, the
\* skip of one that raises HttpError; any other exception leaves the run
MoveFile(outcome, record) ==
  /\ log' = Logged(<<"move">>)
  /\ CASE outcome = "ok" ->
            /\ parents' = move_file(parents, f.id, folder_profiles[dest].id)
            /\ moved' = Append(moved, record)
            /\ Continue
            /\ UNCHANGED skipped
       [] outcome = "HttpError" ->
            /\ Skip(<<"move_failed", outcome>>)
            /\ Continue
            /\ UNCHANGED <<moved, parents>>
       [] OTHER ->
            /\ pc' = "raised"
            /\ UNCHANGED <<idx, moved, skipped, locals, parents>>

\* lines 282-295
MoveTitle ==
  /\ pc = "title_move"
  /\ \E outcome \in MoveOutcomes :
       MoveFile(outcome,
         [file_id   |-> f.id,
          name      |-> f.name,
          to_folder |-> folder_profiles[dest].name,
          category  |-> folder_profiles[dest].name,
          method    |-> IF method # "" THEN method ELSE "title",
          ai_label  |-> None])
  /\ UNCHANGED <<world, aside, disk, cache, ai_calls>>

\* a variant that records the failure of the call and goes on to the content
TitleAI_FallsThrough ==
  /\ pc = "title_ai"
  /\ log' = Logged(<<"title_ai">>)
  /\ \E answer \in AILabels \cup {Raise} :
       IF answer = Raise
       THEN /\ Skip(<<"title_ai_failed", "error">>)
            /\ pc' = "meta"
            /\ UNCHANGED <<ai_calls, idx, locals>>
       ELSE /\ ai_calls' = ai_calls + 1
            /\ UNCHANGED skipped
            /\ LET d == IF Truthy(answer) /\ upper(answer) # NONE
                        THEN LabelToFolder(sub_by_norm, _norm(answer))
                        ELSE 0
               IN  IF d # 0
                   THEN /\ dest' = d
                        /\ title_guess' = answer
                        /\ pc' = "title_ai_move"
                        /\ UNCHANGED <<idx, method, cat, cat_method, text>>
                   ELSE /\ pc' = "meta"
                        /\ UNCHANGED <<idx, locals>>
  /\ UNCHANGED <<world, aside, parents, disk, cache, moved>>

\* lines 302-315: the title AI call and the folder its label maps to
TitleAI ==
  /\ pc = "title_ai"
  /\ log' = Logged(<<"title_ai">>)
  /\ \E answer \in AILabels \cup {Raise} :
       IF answer = Raise
       THEN /\ Skip(<<"title_ai_failed", "error">>)
            /\ Continue
            /\ UNCHANGED ai_calls
       ELSE /\ ai_calls' = ai_calls + 1
            /\ UNCHANGED skipped
            /\ LET d == IF Truthy(answer) /\ upper(answer) # NONE
                        THEN LabelToFolder(sub_by_norm, _norm(answer))
                        ELSE 0
               IN  IF d # 0
                   THEN /\ dest' = d
                        /\ title_guess' = answer
                        /\ pc' = "title_ai_move"
                        /\ UNCHANGED <<idx, method, cat, cat_method, text>>
                   ELSE /\ pc' = "meta"
                        /\ UNCHANGED <<idx, locals>>
  /\ UNCHANGED <<world, aside, parents, disk, cache, moved>>

\* a variant that stores the title AI label under the content hash
MoveTitleAI_Caching ==
  /\ pc = "title_ai_move"
  /\ \E outcome \in MoveOutcomes :
       MoveFile(outcome,
         [file_id   |-> f.id,
          name      |-> f.name,
          to_folder |-> folder_profiles[dest].name,
          category  |-> folder_profiles[dest].name,
          method    |-> "title_ai",
          ai_label  |-> title_guess])
  /\ cache' = CacheAfter(cache, f.md5Checksum, title_guess)
  /\ UNCHANGED <<world, aside, disk, ai_calls>>

\* lines 316-330
MoveTitleAI ==
  /\ pc = "title_ai_move"
  /\ \E outcome \in MoveOutcomes :
       MoveFile(outcome,
         [file_id   |-> f.id,
          name      |-> f.name,
          to_folder |-> folder_profiles[dest].name,
          category  |-> folder_profiles[dest].name,
          method    |-> "title_ai",
          ai_label  |-> title_guess])
  /\ UNCHANGED <<world, aside, disk, cache, ai_calls>>

\* a variant that lets every size through
TooLarge_Never(size, limit) == FALSE

\* line 336: "if size and size > max_bytes"
TooLarge(size, limit) == size # 0 /\ size > limit

\* lines 332-348: size and hash, the size limit, the cache, the ceiling.
\* The metadata call is inside no try: when it raises, the run raises.
FetchMeta ==
  /\ pc = "meta"
  /\ \E outcome \in {"ok", "HttpError"} :
       IF outcome # "ok"
       THEN /\ log' = Logged(<<"meta">>)
            /\ pc' = "raised"
            /\ UNCHANGED <<idx, skipped, locals>>
       ELSE LET md5    == f.md5Checksum
                size   == f.size
                cached == IF md5 # None THEN CacheGet(cache, md5) ELSE None
            IN  IF TooLarge(size, max_bytes)
                THEN /\ log' = Logged(<<"meta">>)
                     /\ Skip(<<"too_large", size>>)
                     /\ Continue
                ELSE IF Truthy(cached)
                THEN /\ log' = Logged(<<"meta", "cache", "cache_hit">>)
                     /\ cat' = cached
                     /\ cat_method' = "cache"
                     /\ pc' = "match"
                     /\ UNCHANGED <<idx, skipped, dest, method, title_guess, text>>
                ELSE IF LimitReached(ai_calls, max_files)
                THEN /\ log' = Logged(<<"meta", "cache">>)
                     /\ Skip(<<"ai_limit_reached">>)
                     /\ Continue
                ELSE /\ log' = Logged(<<"meta", "cache">>)
                     /\ pc' = "download"
                     /\ UNCHANGED <<idx, skipped, locals>>
  /\ UNCHANGED <<world, aside, parents, disk, cache, moved, ai_calls>>

\* lines 349-359 and 368-369: download, extraction, truncation, and the
\* keyword rules on the text
Download ==
  /\ pc = "download"
  /\ \E outcome \in {"ok", "error"}, raises \in BOOLEAN :
       IF outcome # "ok"
       THEN /\ log' = Logged(<<"download">>)
            /\ Skip(<<"download_failed", outcome>>)
            /\ Continue
            /\ UNCHANGED cache
       ELSE LET t == Truncate(_extract_text(f.name, f.mimeType, f.content, raises),
                              text_max)
                text_profile == _best_profile_by_rules(t, folder_profiles)
            IN  IF t = <<>>
                THEN /\ log' = Logged(<<"download", "extract">>)
                     /\ pc' = "match"
                     /\ UNCHANGED <<idx, skipped, cache, locals>>
                ELSE IF text_profile # 0
                THEN /\ log' = Logged(<<"download", "extract", "content_rule">>
                                       \o (IF Cacheable(f.md5Checksum,
                                                        folder_profiles[text_profile].name)
                                           THEN <<"cache_write">> ELSE <<>>))
                     /\ text' = t
                     /\ cat' = folder_profiles[text_profile].name
                     /\ cat_method' = "content_rule"
                     /\ cache' = CacheAfter(cache, f.md5Checksum,
                                            folder_profiles[text_profile].name)
                     /\ pc' = "match"
                     /\ UNCHANGED <<idx, skipped, dest, method, title_guess>>
                ELSE /\ log' = Logged(<<"download", "extract", "content_rule">>)
                     /\ text' = t
                     /\ pc' = "content_ai"
                     /\ UNCHANGED <<idx, skipped, cache, dest, method,
                                    title_guess, cat, cat_method>>
  /\ UNCHANGED <<world, aside, parents, disk, moved, ai_calls>>

\* classify_with_ai answers "" without a remote call when there is no folder
ContentAnswers(profiles) ==
  IF profiles = <<>> THEN {<<>>} ELSE AILabels \cup {Raise}

\* lines 361-369: the content AI call
ContentAI ==
  /\ pc = "content_ai"
  /\ \E answer \in ContentAnswers(folder_profiles) :
       IF answer = Raise
       THEN /\ log' = Logged(<<"content_ai">>)
            /\ Skip(<<"ai_failed", "error">>)
            /\ Continue
            /\ UNCHANGED <<ai_calls, cache>>
       ELSE /\ log' = Logged(<<"content_ai">> \o
                              (IF Cacheable(f.md5Checksum, answer)
                               THEN <<"cache_write">> ELSE <<>>))
            /\ cat' = answer
            /\ ai_calls' = ai_calls + 1
            /\ cat_method' = "content_ai"
            /\ cache' = CacheAfter(cache, f.md5Checksum, answer)
            /\ pc' = "match"
            /\ UNCHANGED <<idx, skipped, dest, method, title_guess, text>>
  /\ UNCHANGED <<world, aside, parents, disk, moved>>

\* lines 371-388: the label NONE, and the folder the label maps to
Match ==
  /\ pc = "match"
  /\ IF Truthy(cat) /\ upper(cat) = NONE
     THEN Skip(<<"ai_returned_none">>) /\ Continue
     ELSE LET norm_cat == _norm(IF Truthy(cat) THEN cat ELSE <<>>)
              d        == LabelToFolder(sub_by_norm, norm_cat)
          IN  IF d = 0
              THEN Skip(<<"no_match", cat>>) /\ Continue
              ELSE /\ dest' = d
                   /\ pc' = "move"
                   /\ UNCHANGED <<idx, skipped, method, title_guess, cat,
                                  cat_method, text>>
  /\ UNCHANGED <<world, aside, parents, disk, cache, moved, ai_calls, log>>

\* lines 390-403
MoveContent ==
  /\ pc = "move"
  /\ \E outcome \in MoveOutcomes :
       MoveFile(outcome,
         [file_id   |-> f.id,
          name      |-> f.name,
          to_folder |-> folder_profiles[dest].name,
          category  |-> cat,
          method    |-> IF cat_method # "" THEN cat_method ELSE "content",
          ai_label  |-> IF cat_method \in {"content_ai", "cache"}
                        THEN cat ELSE None])
  /\ UNCHANGED <<world, aside, disk, cache, ai_calls>>

\* lines 405-406: _save_cache(cache); return moved, skipped
Save ==
  /\ pc = "save"
  /\ disk' = cache
  /\ pc' = "done"
  /\ UNCHANGED <<world, aside, parents, cache, moved, skipped, ai_calls, idx, locals, log>>

Next ==
  \/ Start
  \/ TitleStages
  \/ MoveTitle
  \/ TitleAI
  \/ MoveTitleAI
  \/ FetchMeta
  \/ Download
  \/ ContentAI
  \/ Match
  \/ MoveContent
  \/ Save

Spec == Init /\ [][Next]_vars

SpecFolders == InitFolders /\ [][Next]_vars

(***************************************************************************)
(* POST /sort                                                              *)
(***************************************************************************)
\* the parent ids a request body may carry: none, the empty string, the id
\* of the folder
RequestParentIds == {NoParentId, "", ParentId}

\* a request is received; the backend lists one file under the folder and
\* nothing under an id it does not know
InitRequest ==
  /\ parent_id \in RequestParentIds
  /\ IF parent_id = ParentId
     THEN /\ subfolders = <<FolderRec, FolderInv>>
          /\ files \in {Listing(<<kind>>) : kind \in FileKinds}
     ELSE /\ subfolders = <<>>
          /\ files = <<>>
  /\ max_files = 3
  /\ pc = "request"
  /\ LoopNotBegun
  /\ disk = EmptyCache
  /\ other_pc = "off"
  /\ other_cache = EmptyCache

NextRequest ==
  \/ sort_files
  \/ ListingFails
  \/ Next

SpecRequest == InitRequest /\ [][NextRequest]_vars

(***************************************************************************)
(* A run over a cache file that earlier runs have filled                   *)
(***************************************************************************)
\* the cache file holds the hashes of FileBig and FileScan, each under the
\* name of a folder of the listing
WarmCache ==
  [h \in {FileBig.md5Checksum, FileScan.md5Checksum} |->
     IF h = FileBig.md5Checksum THEN sInv ELSE sRec]

\* a scan whose hash is not in the cache file
FileFresh == [FileScan EXCEPT !.md5Checksum = <<"h5">>]

WarmFileKinds == {FileBig, FileScan, FileKeyword, FileNamed, FileFresh}

\* max_files = 1: the title AI call of the first file reaches the ceiling
InitWarm ==
  /\ subfolders = <<FolderRec, FolderInv>>
  /\ files \in UNION {{Listing(ks) : ks \in [1..n -> WarmFileKinds]} :
                       n \in 1..MaxListed}
  /\ max_files \in {1, 3}
  /\ ReportEmpty
  /\ disk = WarmCache
  /\ other_pc = "off"
  /\ other_cache = EmptyCache

SpecWarm == InitWarm /\ [][Next]_vars

(***************************************************************************)
(* Runs over folders whose names hold, or are held by, a classifier label  *)
(***************************************************************************)
FolderI == [id |-> "d7", name |-> <<"I">>]

FolderRecs == [id |-> "d8", name |-> <<"R","e","c","s">>]

LabelFolderLists == { <<FolderI, FolderInv>>, <<FolderI, FolderRecs>> }

InitLabels ==
  /\ subfolders \in LabelFolderLists
  /\ files \in UNION {{Listing(ks) : ks \in [1..n -> {FileScan, FileNamed}]} :
                       n \in 1..MaxListed}
  /\ max_files = 3
  /\ RunBegins

SpecLabels == InitLabels /\ [][Next]_vars

(***************************************************************************)
(* Runs over files of every MIME type and extension                        *)
(***************************************************************************)
ExtractNames ==
  {<<"a">> \o e : e \in {ExtPdf, <<".","p","n","g">>, ExtXlsx,
                          <<".","t","x","t">>, <<>>}}

ExtractMimes ==
  {MimePdf, "image/png", MimeXlsx, "text/plain", "application/zip"}

\* one file of any of the names and MIME types, or one the title resolves
InitExtract ==
  /\ subfolders = <<FolderRec, FolderInv>>
  /\ files \in {Listing(<<kind>>) :
                  kind \in {FileNamed} \cup
                    {[FileScan EXCEPT !.name = n, !.mimeType = m] :
                       n \in ExtractNames, m \in ExtractMimes}}
  /\ max_files = 3
  /\ RunBegins

SpecExtract == InitExtract /\ [][Next]_vars

(***************************************************************************)
(* ai_sort_files called again on the same parent folder                    *)
(***************************************************************************)
\* list_files_directly_under: of the files listed before, those that still
\* have the parent folder among their parents, in the same order
list_files_directly_under(listed, ps) ==
  LET Under(x) == ParentId \in ps[x.id]
  IN  SelectSeq(listed, Under)

\* the first run has returned its report and ai_sort_files is called again:
\* new listings (lines 218-219), a new report
Rerun ==
  /\ pc = "done"
  /\ run = 1
  /\ run' = 2
  /\ first_moved' = [id \in {moved[n].file_id : n \in 1..Len(moved)} |->
                        parents[id]]
  /\ files' = list_files_directly_under(files, parents)
  /\ log' = [k \in 1..Len(files') |-> <<>>]
  /\ moved' = <<>>
  /\ skipped' = <<>>
  /\ ai_calls' = 0
  /\ idx' = 0
  /\ pc' = "start"
  /\ UNCHANGED <<parent_id, subfolders, max_files, text_max, max_bytes, disk,
                 cache, locals, parents, other_pc, other_cache>>

NextRerun ==
  \/ Next
  \/ Rerun

\* files resolved by the title, by the content, by the AI, and never
RerunFileKinds == {FileNamed, FileKeyword, FileScan, FileBig}

\* the runs that are followed by a second one
InitRerun ==
  /\ subfolders = <<FolderRec, FolderInv>>
  /\ files \in UNION {{Listing(ks) : ks \in [1..n -> RerunFileKinds]} :
                       n \in 1..MaxListed}
  /\ max_files = 3
  /\ RunBegins

SpecRerun == InitRerun /\ [][NextRerun]_vars

(***************************************************************************)
(* A second run of ai_sort_files on the same cache file                    *)
(***************************************************************************)
\* line 241: cache = _load_cache()
OtherLoad ==
  /\ other_pc = "start"
  /\ other_cache' = disk
  /\ other_pc' = "loop"
  /\ UNCHANGED <<world, disk, cache, moved, skipped, ai_calls, idx, pc, locals,
                 log, parents, run, first_moved>>

\* lines 247-403 for one file of the other run whose content stages give a
\* label: cache[md5] = cat (a hash already in the dict is a cache hit, and
\* nothing is written)
OtherClassify ==
  /\ other_pc = "loop"
  /\ \E md5 \in OtherHashes \ DOMAIN other_cache, label \in {sInv, sRec} :
       other_cache' = CacheAfter(other_cache, md5, label)
  /\ UNCHANGED <<world, disk, cache, moved, skipped, ai_calls, idx, pc, locals,
                 log, parents, run, first_moved, other_pc>>

\* line 405: _save_cache(cache) writes the whole dict of the run
OtherSave ==
  /\ other_pc = "loop"
  /\ disk' = other_cache
  /\ other_pc' = "done"
  /\ UNCHANGED <<world, cache, moved, skipped, ai_calls, idx, pc, locals,
                 log, parents, run, first_moved, other_cache>>

NextTwoRuns ==
  \/ Next
  \/ OtherLoad
  \/ OtherClassify
  \/ OtherSave

SpecTwoRuns == InitTwoRuns /\ [][NextTwoRuns]_vars

(***************************************************************************)
(* Reading the history and the report                                      *)
(***************************************************************************)
StageOrder ==
  <<"title_rule", "title_substring", "title_similarity", "title_ai",
    "cache", "content_rule", "content_ai">>

StageTags == {StageOrder[k] : k \in 1..Len(StageOrder)}

TitleTags == {"title_rule", "title_substring", "title_similarity"}

StagePlace(tag) == CHOOSE k \in 1..Len(StageOrder) : StageOrder[k] = tag

IsStage(e) == e \in StageTags

IsAICall(e) == e \in {"title_ai", "content_ai"}

Files == 1..Len(files)

\* event e is in the history of file k
Has(k, e) == \E n \in 1..Len(log[k]) : log[k][n] = e

\* the stages tried for file k, in the order they were tried
StagesOf(k) == SelectSeq(log[k], IsStage)

\* the classifier calls made for file k, returned or raised
AICallsOf(k) == Len(SelectSeq(log[k], IsAICall))

RECURSIVE AICallsUpTo(_)
AICallsUpTo(k) == IF k = 0 THEN 0 ELSE AICallsOf(k) + AICallsUpTo(k - 1)

\* the classifier calls made in the run
TotalAICalls == AICallsUpTo(Len(files))

MovedOf(k) == {moved[n] : n \in {m \in 1..Len(moved) : moved[m].file_id = k}}

SkippedOf(k) ==
  {skipped[n] : n \in {m \in 1..Len(skipped) : skipped[m].file_id = k}}

\* the loop is past file k
Processed(k) == k < idx \/ (pc \in {"save", "done"} /\ k <= Len(files))

\* what the title stages decide for every folder list and file name of Init
TitleOutcome ==
  [subs \in FolderLists \cup {<<FolderInv>>} |->
    [name \in {kind.name : kind \in FileKinds} |->
      TitleDecision(name, FolderProfiles(subs),
                    SubByNormUpTo(subs, Len(subs)),
                    SubByLowerUpTo(subs, Len(subs)))]]

\* the title alone gives no destination for file k
NoTitleSignal(k) == TitleOutcome[subfolders][files[k].name].dest = 0

\* the reasons of the skips of file k
ReasonsOf(k) == {r.reason[1] : r \in SkippedOf(k)}

\* the text extracted for file k was empty: the extractor ran (or no
\* extractor takes the type) and the keyword rules had nothing to score
EmptyText(k) == Has(k, "extract") /\ ~Has(k, "content_rule")

(***************************************************************************)
(* The claims                                                              *)
(***************************************************************************)

\* C1: a file for which no stage produces a label (no title stage, no title
\* AI label, no cache entry, and an empty extracted text) is recorded in
\* skipped with a reason code and is never moved to any folder.
C1_NoLabelIsSkipped ==
  \A k \in Files :
    EmptyText(k) =>
      /\ ~Has(k, "move")
      /\ MovedOf(k) = {}
      /\ (Processed(k) => SkippedOf(k) # {})

\* C2: for every file the stages are tried in the fixed order title_rule,
\* title_substring, title_similarity, title_ai, cache, content_rule,
\* content_ai; a moved record carries the tag of the last stage tried, which
\* is the first one that resolved; a file resolved by a title stage without
\* AI causes no AI call, no metadata fetch and no download.
C2_StagesInOrder ==
  /\ \A k \in Files :
       LET st == StagesOf(k)
       IN  \A m, n \in 1..Len(st) :
             m < n => StagePlace(st[m]) < StagePlace(st[n])
  /\ \A n \in 1..Len(moved) :
       LET r    == moved[n]
           k    == r.file_id
           st   == StagesOf(k)
           rule == _best_profile_by_rules(files[k].name, folder_profiles)
           sub  == IF TitleSubstring(sub_by_norm, _norm(files[k].name)) # 0
                   THEN TitleSubstring(sub_by_norm, _norm(files[k].name))
                   ELSE TitleSubstring(sub_by_lower, lower(files[k].name))
       IN  r.method \in StageTags =>
             /\ st # <<>>
             /\ st[Len(st)] = r.method
             /\ r.method \in TitleTags =>
                  /\ AICallsOf(k) = 0
                  /\ ~Has(k, "meta")
                  /\ ~Has(k, "download")
             /\ r.method = "title_rule" =>
                  rule # 0 /\ r.to_folder = folder_profiles[rule].name
             /\ r.method = "title_substring" =>
                  rule = 0 /\ sub # 0 /\ r.to_folder = folder_profiles[sub].name
             /\ r.method = "title_similarity" => rule = 0 /\ sub = 0
             /\ r.method \notin TitleTags => NoTitleSignal(k)

\* C2 witness: a file went through all seven stages and was moved by the last
C2_Witness ==
  \E n \in 1..Len(moved) :
    /\ moved[n].method = "content_ai"
    /\ StagesOf(moved[n].file_id) = StageOrder

\* C3: a failure of any storage, extractor or classifier call made for one
\* file is recorded as a skip of that file and never aborts the run.
C3_FailuresNeverAbort == pc # "raised"

\* C4: the classifier calls of a run, returned or raised, never exceed
\* max_files, and each is made with the call counter below max_files.
C4_CallsWithinCeiling ==
  /\ TotalAICalls <= max_files
  /\ pc \in {"title_ai", "content_ai"} => ai_calls < max_files

\* no call failed in the run so far
NoFailure ==
  \A n \in 1..Len(skipped) :
    skipped[n].reason[1] \notin
      {"title_ai_failed", "ai_failed", "download_failed", "move_failed"}

\* C5: with max_files = 2 and five files that need AI classification, exactly
\* two files receive AI calls and the other three are skipped with
\* ai_limit_reached (stated for the runs in which no call fails).
C5_TwoOfFive ==
  (files = CeilingListing /\ max_files = 2 /\ pc = "done" /\ NoFailure) =>
    /\ Cardinality({k \in Files : AICallsOf(k) > 0}) = 2
    /\ Cardinality({k \in Files : "ai_limit_reached" \in ReasonsOf(k)}) = 3

\* files j and k, j listed first, hold the same bytes, neither has a title
\* signal, and the content stages of j stored a label under their hash
SameContentCached(j, k) ==
  /\ j < k
  /\ files[j].md5Checksum # None
  /\ files[j].md5Checksum = files[k].md5Checksum
  /\ Has(j, "cache_write")
  /\ NoTitleSignal(j)
  /\ NoTitleSignal(k)

CacheReadBefore(k, n) == \E m \in 1..(n - 1) : log[k][m] = "cache"

C8_CacheOnlyResolved ==
  \A h \in DOMAIN cache :
    /\ Truthy(cache[h])
    /\ upper(cache[h]) # NONE
    /\ LabelToFolder(sub_by_norm, _norm(cache[h])) # 0

\* C9: the steps of title_rule, title_substring, title_similarity and
\* title_ai, and the moves they trigger, leave the cache unchanged.
C9_TitleStagesKeepCache ==
  [][(pc \in {"title", "title_move", "title_ai", "title_ai_move"})
       => (cache' = cache)]_vars

\* C9 witness: a file with a content hash was moved by the title AI and its
\* hash has no cache entry
C9_Witness ==
  \E n \in 1..Len(moved) :
    /\ moved[n].method = "title_ai"
    /\ files[moved[n].file_id].md5Checksum # None
    /\ files[moved[n].file_id].md5Checksum \notin DOMAIN cache

\* a non-empty normalised exclude keyword of the profile is a substring of
\* the normalised subject
ExcludedBy(subject, profile) ==
  \E n \in 1..Len(profile.exclude) :
    /\ _norm(profile.exclude[n]) # <<>>
    /\ Contains(_norm(profile.exclude[n]), _norm(subject))

\* the subjects scored for the file at hand: its name and its text
Subjects == {f.name, Truncate(f.content, text_max)}

\* C10: when an exclude keyword of a profile matches the subject, _rule_score
\* is below zero whatever include keywords or name match, and
\* _best_profile_by_rules never returns that profile.
C10_ExcludeRejects ==
  /\ idx \in Files =>
       \A subject \in Subjects, p \in 1..Len(folder_profiles) :
         ExcludedBy(subject, folder_profiles[p]) =>
           /\ _rule_score(subject, folder_profiles[p]) < 0
           /\ _best_profile_by_rules(subject, folder_profiles) # p
  /\ (pc = "title_move" /\ method = "title_rule") =>
       ~ExcludedBy(f.name, folder_profiles[dest])

\* C10 witness: the title rules have scored a name that holds an include and
\* an exclude keyword of the same profile, and chose nothing
C10_Witness ==
  /\ pc = "title_ai"
  /\ \E p \in 1..Len(folder_profiles) :
       /\ ExcludedBy(f.name, folder_profiles[p])
       /\ IncludeCount(_norm(f.name), folder_profiles[p].include) > 0

\* the keyword scores of the subject, by place in folder_profiles
RuleScores(subject) ==
  [p \in 1..Len(folder_profiles) |-> _rule_score(subject, folder_profiles[p])]

\* C11: _best_profile_by_rules returns the profile of the highest positive
\* score, the one enumerated first among those of that score, and none when
\* no score is positive; a file moved by title_rule goes to that profile's
\* folder.
C11_FirstBestByRules ==
  /\ idx \in Files =>
       \A subject \in Subjects :
         LET r  == _best_profile_by_rules(subject, folder_profiles)
             sc == RuleScores(subject)
         IN  /\ r = 0 => \A p \in DOMAIN sc : sc[p] <= 0
             /\ r # 0 =>
                  /\ sc[r] > 0
                  /\ \A p \in DOMAIN sc :
                       sc[p] <= sc[r] /\ (sc[p] = sc[r] => r <= p)
  /\ \A n \in 1..Len(moved) :
       moved[n].method = "title_rule" =>
         LET sc == RuleScores(moved[n].name)
             r  == CHOOSE p \in DOMAIN sc :
                     /\ \A q \in DOMAIN sc : sc[q] <= sc[p]
                     /\ \A q \in DOMAIN sc : sc[q] = sc[p] => p <= q
         IN  /\ sc[r] > 0
             /\ parents[moved[n].file_id] = {folder_profiles[r].id}

\* C11 witness: a file was moved by title_rule when two profiles had the
\* same, highest, positive score for its name
C11_Witness ==
  \E n \in 1..Len(moved) :
    /\ moved[n].method = "title_rule"
    /\ LET sc == RuleScores(moved[n].name)
       IN  \E p, q \in DOMAIN sc :
             /\ p # q
             /\ sc[p] = sc[q]
             /\ sc[p] > 0
             /\ \A m \in DOMAIN sc : sc[m] <= sc[p]

\* the normalised name of folder p is a non-empty part of the normalised name
NameHoldsFolder(name, p) ==
  /\ _norm(folder_profiles[p].name) # <<>>
  /\ Contains(_norm(folder_profiles[p].name), _norm(name))

\* no include keyword of any profile matches the name
NoIncludeMatch(name) ==
  \A p \in 1..Len(folder_profiles) :
    IncludeCount(_norm(name), folder_profiles[p].include) = 0

\* C12: a file whose normalised name contains a folder's normalised name and
\* matches no include keyword is moved with method title_substring, with no
\* download and no AI call.
C12_NameInTitleIsSubstring ==
  \A n \in 1..Len(moved) :
    ((\E p \in 1..Len(folder_profiles) : NameHoldsFolder(moved[n].name, p))
       /\ NoIncludeMatch(moved[n].name)) =>
      /\ moved[n].method = "title_substring"
      /\ AICallsOf(moved[n].file_id) = 0
      /\ ~Has(moved[n].file_id, "download")

\* the profile the keyword rules give for the text of file k, cut to text_max
TextProfile(k) ==
  _best_profile_by_rules(Truncate(files[k].content, text_max), folder_profiles)

C14_OversizedNeverDownloaded ==
  \A k \in Files :
    /\ files[k].size > max_bytes =>
         /\ ~Has(k, "download")
         /\ (Has(k, "meta") /\ Processed(k)) =>
              /\ SkippedOf(k) # {}
              /\ \A r \in SkippedOf(k) :
                   r.reason = <<"too_large", files[k].size>>
              /\ MovedOf(k) = {}
    /\ Has(k, "download") => (files[k].size = 0 \/ files[k].size <= max_bytes)

\* C14 witness: the metadata of a file larger than max_bytes was fetched and
\* the file was skipped for its size
C14_Witness ==
  \E k \in Files :
    /\ files[k].size > max_bytes
    /\ Has(k, "meta")
    /\ "too_large" \in ReasonsOf(k)

\* the last event of the history of file k
LastEvent(k) == IF log[k] = <<>> THEN "" ELSE log[k][Len(log[k])]

\* file k has the one skip record, with this reason
SkippedFor(k, reason) ==
  /\ SkippedOf(k) = {[file_id |-> files[k].id, name |-> files[k].name,
                      reason |-> reason]}
  /\ MovedOf(k) = {}

\* what the report and the history show of a failed call
FailureEndsFile ==
  \A k \in Files :
    /\ "title_ai_failed" \in ReasonsOf(k) =>
         /\ SkippedFor(k, <<"title_ai_failed", "error">>)
         /\ LastEvent(k) = "title_ai"
         /\ \A e \in {"meta", "cache", "download", "extract", "content_rule",
                       "content_ai", "cache_write", "move"} : ~Has(k, e)
    /\ "download_failed" \in ReasonsOf(k) =>
         /\ SkippedFor(k, <<"download_failed", "error">>)
         /\ LastEvent(k) = "download"
         /\ \A e \in {"extract", "content_rule", "content_ai",
                       "cache_write", "move"} : ~Has(k, e)
    /\ "ai_failed" \in ReasonsOf(k) =>
         /\ SkippedFor(k, <<"ai_failed", "error">>)
         /\ LastEvent(k) = "content_ai"
         /\ \A e \in {"cache_write", "move"} : ~Has(k, e)
    /\ (Processed(k) /\ LastEvent(k) = "title_ai") =>
         "title_ai_failed" \in ReasonsOf(k)
    /\ (Processed(k) /\ LastEvent(k) = "download") =>
         "download_failed" \in ReasonsOf(k)

\* a classifier call that raises (the counter stays) and a download that
\* raises (nothing is extracted) end the file with a skip; nothing is moved
\* and the cache stays
FailureStep ==
  LET failed ==
        \/ pc \in {"title_ai", "content_ai"} /\ ai_calls' = ai_calls
        \/ pc = "download" /\ log'[idx] = Append(log[idx], "download")
      reason == CASE pc = "title_ai" -> <<"title_ai_failed", "error">>
                  [] pc = "content_ai" -> <<"ai_failed", "error">>
                  [] OTHER -> <<"download_failed", "error">>
  IN  failed =>
        /\ skipped' = Append(skipped, [file_id |-> f.id, name |-> f.name,
                                       reason |-> reason])
        /\ idx' = idx + 1
        /\ pc' \in {"title", "save"}
        /\ moved' = moved
        /\ cache' = cache
        /\ parents' = parents

\* C15: when the title AI call, the download or the content AI call fails for
\* a file, the file is skipped with title_ai_failed, download_failed or
\* ai_failed and the cause, and no later stage runs for it: no metadata fetch,
\* download or content AI call after a title AI failure, no extraction and no
\* content AI call after a download failure, no move and no cache write after
\* a content AI failure.
C15_FailureSkipsFile == []FailureEndsFile /\ [][FailureStep]_vars

\* C15 witness: in one run the download of one file and the content AI call
\* of another failed, and both files are past
C15_Witness ==
  \E j, k \in Files :
    /\ SkippedFor(j, <<"download_failed", "error">>)
    /\ SkippedFor(k, <<"ai_failed", "error">>)
    /\ Processed(j)
    /\ Processed(k)

\* the number of move_file calls made for file k
MovesOf(k) == Cardinality({n \in 1..Len(log[k]) : log[k][n] = "move"})

\* C16: a file is in moved only if its move_file call returned; a file whose
\* move fails is recorded in skipped with move_failed and the cause, is not in
\* moved and is not retried, at every stage that can trigger a move.
C16_MoveFailureIsSkip ==
  \A k \in Files :
    /\ MovedOf(k) # {} =>
         /\ Has(k, "move")
         /\ ParentId \notin parents[k]
    /\ MovesOf(k) <= 1
    /\ (Has(k, "move") /\ MovedOf(k) = {}) =>
         /\ "move_failed" \in ReasonsOf(k)
         /\ parents[k] = {ParentId}

\* C17: when two runs execute concurrently, each loading the cache at its
\* start and saving it at its end, the cache file after both have finished
\* holds every entry that was there before and every entry either run added.
C17_NoEntryLost ==
  (pc = "done" /\ other_pc = "done") =>
    \A h \in DOMAIN PriorCache \cup DOMAIN cache \cup DOMAIN other_cache :
      h \in DOMAIN disk

\* the place in the listing of the folder with this id
FolderPlace(id) == CHOOSE p \in 1..Len(subfolders) : subfolders[p].id = id

\* no folder listed before place p has the same name after normalisation
FirstOfItsName(p) ==
  \A q \in 1..(p - 1) : _norm(subfolders[q].name) # _norm(subfolders[p].name)

\* C18: when two folders have the same name, or names equal after
\* normalisation, the one enumerated first is the destination in every stage
\* that maps a name or a label to a folder.
C18_FirstOfSameName ==
  \A n \in 1..Len(moved) :
    \A id \in parents[moved[n].file_id] : FirstOfItsName(FolderPlace(id))

\* C19: in a second run on the same parent folder, a file the first run
\* moved is not directly under the parent, is not listed, is neither moved
\* nor classified again, and is in neither list of the second report.
C19_MovedFilesNotSeenAgain ==
  run = 2 =>
    \A id \in DOMAIN first_moved :
      /\ ParentId \notin parents[id]
      /\ parents[id] = first_moved[id]
      /\ \A k \in 1..Len(files) : files[k].id # id
      /\ \A n \in 1..Len(moved) : moved[n].file_id # id
      /\ \A n \in 1..Len(skipped) : skipped[n].file_id # id

\* C19 witness: the second run has ended; the first run moved one file and
\* the second run moved another one, which the first had left
C19_Witness ==
  /\ run = 2
  /\ pc = "done"
  /\ DOMAIN first_moved # {}
  /\ moved # <<>>

\* s is the beginning of t
IsPrefix(s, t) == Len(s) <= Len(t) /\ s = SubSeq(t, 1, Len(s))

\* C20: the text handed to the keyword scoring of content and to
\* classify_with_ai is never longer than text_max: it is the first text_max
\* characters of a longer text, and the file is still classified, never
\* skipped for the length of its text.
C20_TextWithinLimit ==
  /\ Len(text) <= text_max
  /\ (pc = "content_ai" \/ (pc = "match" /\ cat_method = "content_rule")) =>
       /\ text # <<>>
       /\ IsPrefix(text, f.content)
       /\ Len(f.content) > text_max => Len(text) = text_max
  /\ \A k \in Files :
       (Has(k, "content_rule") /\ Len(files[k].content) > text_max) =>
         ReasonsOf(k) \subseteq
           {"ai_failed", "ai_returned_none", "no_match", "move_failed"}

\* C20 witness: a text longer than text_max has been scored by the keyword
\* rules and awaits the content AI call, cut to text_max characters
C20_Witness ==
  /\ pc = "content_ai"
  /\ Len(f.content) > text_max
  /\ Len(text) = text_max

\* C21: when the parent folder has no sub-folders, no file is moved (no move
\* is attempted, every file keeps its parent), and every file the loop is
\* past has its one record in skipped.
C21_NoFoldersAllSkipped ==
  subfolders = <<>> =>
    /\ moved = <<>>
    /\ \A k \in Files :
         /\ ~Has(k, "move")
         /\ parents[k] = {ParentId}
         /\ Processed(k) =>
              Cardinality({n \in 1..Len(skipped) : skipped[n].file_id = k}) = 1
    /\ pc = "done" => Len(skipped) = Len(files)

\* C21 witness: a run over two files and no sub-folder has returned; one
\* file was downloaded and found no folder, the other was too large
C21_Witness ==
  /\ subfolders = <<>>
  /\ pc = "done"
  /\ Len(files) = 2
  /\ \E j, k \in Files :
       /\ "no_match" \in ReasonsOf(j)
       /\ Has(j, "download")
       /\ "too_large" \in ReasonsOf(k)

\* the listing calls of ai_sort_files (lines 218-219) have been made
ListingCalled == pc \notin {"request", "rejected", "start"}

\* C22: a sort request with a missing or an empty parent id is rejected
\* before any listing call is made.
C22_InvalidParentNeverListed ==
  parent_id \in {NoParentId, ""} => ~ListingCalled

\* C23: a file whose name contains an exclude keyword of folder P's profile is
\* never moved to P by a title stage (title_rule, title_substring or
\* title_similarity).
C23_ExcludedNeverByTitle ==
  \A n \in 1..Len(moved) :
    moved[n].method \in TitleTags =>
      \A id \in parents[moved[n].file_id] :
        ~ExcludedBy(moved[n].name, folder_profiles[FolderPlace(id)])

\* the cache file the run loaded names a folder of the listing under the hash
\* of file k
CachedFolder(k) ==
  /\ pc \notin {"start", "done"}
  /\ files[k].md5Checksum \in DOMAIN disk
  /\ \E p \in 1..Len(subfolders) :
       subfolders[p].name = disk[files[k].md5Checksum]

\* C24: a file whose metadata were fetched and whose content hash has a cache
\* entry naming a candidate folder is moved there with method cache, without
\* download, extraction or content AI call, whatever its size and whatever
\* the call counter (stated for the files whose move does not fail).
C24_CacheHitWhateverSize ==
  \A k \in Files :
    (CachedFolder(k) /\ Has(k, "meta") /\ Processed(k)
       /\ "move_failed" \notin ReasonsOf(k)) =>
      /\ \E r \in MovedOf(k) :
           /\ r.method = "cache"
           /\ r.to_folder = disk[files[k].md5Checksum]
      /\ ~Has(k, "download")
      /\ ~Has(k, "extract")
      /\ ~Has(k, "content_ai")

\* the folder a label maps to, by place in the listing: the folder whose
\* normalised name equals the normalised label, else the first whose
\* non-empty normalised name contains it or is contained in it, else 0
ExpectedFolder(label) ==
  LET nl     == _norm(label)
      name(p) == _norm(subfolders[p].name)
      equal  == {p \in 1..Len(subfolders) : name(p) = nl}
      partly == {p \in 1..Len(subfolders) :
                   /\ name(p) # <<>>
                   /\ (Contains(name(p), nl) \/ Contains(nl, name(p)))}
      first(S) == CHOOSE p \in S : \A q \in S : p <= q
  IN  IF equal # {} THEN first(equal)
      ELSE IF partly # {} THEN first(partly)
      ELSE 0

\* C25: after a content AI call returned label L: if L is NONE in any case the
\* file is skipped with ai_returned_none; otherwise L is mapped to a folder by
\* normalised equality and, failing that, to the first folder whose
\* normalised name contains or is contained in normalised L; if no folder
\* maps, the file is skipped with no_match:<L>; otherwise it is moved to that
\* folder with method content_ai (a move that raises HttpError aside).
C25_LabelToDestination ==
  [][/\ (pc = "content_ai" /\ pc' = "match") => cat_method' = "content_ai"
     /\ (pc = "match" /\ cat_method = "content_ai") =>
          IF upper(cat) = NONE
          THEN /\ skipped' = Append(skipped,
                    [file_id |-> f.id, name |-> f.name,
                     reason |-> <<"ai_returned_none">>])
               /\ moved' = moved
               /\ idx' = idx + 1
          ELSE IF ExpectedFolder(cat) = 0
          THEN /\ skipped' = Append(skipped,
                    [file_id |-> f.id, name |-> f.name,
                     reason |-> <<"no_match", cat>>])
               /\ moved' = moved
               /\ idx' = idx + 1
          ELSE /\ pc' = "move"
               /\ dest' = ExpectedFolder(cat)
               /\ UNCHANGED <<cat, cat_method, idx, moved, skipped>>
     /\ (pc = "move" /\ cat_method = "content_ai") =>
          \/ /\ idx' = idx + 1
             /\ skipped' = skipped
             /\ moved' = Append(moved,
                  [file_id |-> f.id, name |-> f.name,
                   to_folder |-> subfolders[dest].name, category |-> cat,
                   method |-> "content_ai", ai_label |-> cat])
             /\ parents'[f.id] = {subfolders[dest].id}
          \/ /\ idx' = idx + 1
             /\ moved' = moved
             /\ skipped' = Append(skipped,
                  [file_id |-> f.id, name |-> f.name,
                   reason |-> <<"move_failed", "HttpError">>])
          \/ pc' = "raised"]_vars

\* C25 witness: a file was moved with content_ai to the second folder, whose
\* name holds the label without being equal to it
C25_Witness ==
  \E n \in 1..Len(moved) :
    /\ moved[n].method = "content_ai"
    /\ Truthy(moved[n].ai_label)
    /\ _norm(moved[n].ai_label) # _norm(moved[n].to_folder)
    /\ moved[n].to_folder = subfolders[2].name

\* the class of documents a MIME type identifies
MimeClass(mime) ==
  IF mime = MimePdf THEN "pdf"
  ELSE IF IsImageMime(mime) THEN "image"
  ELSE IF mime = MimeXlsx THEN "xlsx"
  ELSE "none"

\* the class of documents the extension of a name identifies
ExtClass(name) ==
  LET nl == lower(name)
  IN  IF EndsWith(nl, ExtPdf) THEN "pdf"
      ELSE IF \E e \in ImageExts : EndsWith(nl, e) THEN "image"
      ELSE IF EndsWith(nl, ExtXlsx) THEN "xlsx"
      ELSE IF \E e \in _DEF_PLAIN_EXTS : EndsWith(nl, e) THEN "plain"
      ELSE "none"

\* C26: _extract_text dispatches on the MIME type first: when the MIME type
\* identifies a supported class, that class's extractor is invoked whatever
\* the extension; the extension decides only when the MIME type identifies
\* none; an unsupported type or an extractor that raises yields the empty
\* string.
C26_MimeBeforeExtension ==
  \A k \in Files :
    Has(k, "extract") =>
      LET name == files[k].name
          mime == files[k].mimeType
      IN  /\ ExtractorFor(name, mime) =
               IF MimeClass(mime) # "none" THEN MimeClass(mime)
               ELSE ExtClass(name)
          /\ ExtractorFor(name, mime) = "none" =>
               _extract_text(name, mime, files[k].content, FALSE) = <<>>
          /\ ExtractorFor(name, mime) \in {"pdf", "image", "xlsx"} =>
               _extract_text(name, mime, files[k].content, TRUE) = <<>>

\* C27: every record of moved has a method that is one of the seven stage
\* tags, and a category that is a label: neither empty nor null.
C27_MovedHasStageAndCategory ==
  \A n \in 1..Len(moved) :
    /\ moved[n].method \in StageTags
    /\ moved[n].category # None
    /\ moved[n].category # <<>>

\* the number of records of moved and of skipped for the file of id k
RecordsOf(k) ==
  Cardinality({n \in 1..Len(moved) : moved[n].file_id = k})
    + Cardinality({n \in 1..Len(skipped) : skipped[n].file_id = k})

\* C28: when ai_sort_files returns, every listed file has exactly one record,
\* in moved or in skipped, and no record is of another file; before that,
\* every file the loop is past has exactly one record and the others none.
C28_OneRecordPerFile ==
  /\ \A k \in Files : RecordsOf(files[k].id) = IF Processed(k) THEN 1 ELSE 0
  /\ \A n \in 1..Len(moved) :
       \E k \in Files : moved[n].file_id = files[k].id /\ moved[n].name = files[k].name
  /\ \A n \in 1..Len(skipped) :
       \E k \in Files : skipped[n].file_id = files[k].id /\ skipped[n].name = files[k].name
  /\ pc = "done" => Len(moved) + Len(skipped) = Len(files)

\* C28 witness: a run over two files has returned, one moved, one skipped
C28_Witness ==
  /\ pc = "done"
  /\ Len(files) = 2
  /\ Len(moved) = 1
  /\ Len(skipped) = 1
  /\ moved[1].file_id # skipped[1].file_id

\* C29: a file is moved with method title_substring only if title_rule found
\* no profile with a positive score; the destination's profile was then
\* rejected by one of its own exclude keywords, or the folder's name is made
\* of whitespace only.
C29_SubstringOnlyPastExclude ==
  \A n \in 1..Len(moved) :
    moved[n].method = "title_substring" =>
      /\ \A p \in 1..Len(folder_profiles) :
           _rule_score(moved[n].name, folder_profiles[p]) <= 0
      /\ \A id \in parents[moved[n].file_id] :
           \/ ExcludedBy(moved[n].name, folder_profiles[FolderPlace(id)])
           \/ _norm(subfolders[FolderPlace(id)].name) = <<>>

\* C29 witness: a file was moved with title_substring to a folder whose name
\* is part of the file's name and whose profile excludes the file's name
C29_Witness ==
  \E n \in 1..Len(moved) :
    /\ moved[n].method = "title_substring"
    /\ \E p \in 1..Len(folder_profiles) :
         /\ folder_profiles[p].id \in parents[moved[n].file_id]
         /\ NameHoldsFolder(moved[n].name, p)
         /\ ExcludedBy(moved[n].name, folder_profiles[p])

\* C30: once the call counter has reached max_files no file is downloaded: a
\* file that reaches the content stages without a cache hit is then skipped
\* with ai_limit_reached before download, extraction and keyword scoring of
\* its content, also when that scoring would have resolved it.
C30_NoDownloadAtCeiling ==
  /\ pc = "download" => ai_calls < max_files
  /\ \A k \in Files :
       /\ (Processed(k) /\ Has(k, "cache") /\ ~Has(k, "cache_hit")
             /\ ~Has(k, "download")) =>
            /\ ReasonsOf(k) = {"ai_limit_reached"}
            /\ MovedOf(k) = {}
       /\ "ai_limit_reached" \in ReasonsOf(k) =>
            /\ ~Has(k, "download")
            /\ ~Has(k, "extract")
            /\ ~Has(k, "content_rule")
            /\ ai_calls >= max_files

\* C30 witness: a file within the size limit whose text holds an include
\* keyword was skipped with ai_limit_reached after the cache lookup
C30_Witness ==
  \E k \in Files :
    /\ Processed(k)
    /\ Has(k, "cache")
    /\ "ai_limit_reached" \in ReasonsOf(k)
    /\ ~TooLarge(files[k].size, max_bytes)
    /\ ExtractorFor(files[k].name, files[k].mimeType) # "none"
    /\ TextProfile(k) # 0

\* before the run returns the cache file holds none of the entries the run
\* added, and the write comes after the last file
CacheFileUntouched ==
  /\ pc = "save" => idx > Len(files)
  /\ pc # "done" =>
       \A k \in Files :
         Has(k, "cache_write") => files[k].md5Checksum \notin DOMAIN disk
  /\ pc = "done" => disk = cache

\* one step of a run: the dict is read from the file by the first step only,
\* the file is written by the last step only, an exception leaves the file
\* as it was, and a non-empty entry of the dict stays as it is
CacheStep ==
  /\ pc = "start" => cache' = disk
  /\ disk' # disk => (pc = "save" /\ pc' = "done" /\ disk' = cache)
  /\ pc' = "raised" => disk' = disk
  /\ pc # "start" =>
       \A h \in DOMAIN cache :
         Truthy(cache[h]) => (h \in DOMAIN cache' /\ cache'[h] = cache[h])

\* C31: the cache file is read once, at the start of a run, and written once,
\* after the last file; within the run a non-empty entry is never overwritten
\* or removed; the entries added by a run that ends with an exception are not
\* persisted (stated for a run that is alone on the cache file).
C31_CacheReadOnceWrittenOnce == []CacheFileUntouched /\ [][CacheStep]_vars

\* C31 witness: a run over a filled cache file added an entry and then ended
\* with an exception; the file is as it was
C31_Witness ==
  /\ pc = "raised"
  /\ disk = WarmCache
  /\ \E k \in Files :
       /\ Has(k, "cache_write")
       /\ files[k].md5Checksum \in DOMAIN cache
       /\ files[k].md5Checksum \notin DOMAIN disk

====
